---------------------------- MODULE Spec2Model ----------------------------
(***************************************************************************)
(* AutoStrmCreator (plugins.v2/autostrmcreator/__init__.py).               *)
(*                                                                         *)
(* A Python str is modelled as a sequence of one-character strings, so     *)
(* that split, strip, replace, startswith, os.path.join and                *)
(* os.path.splitext are computed character by character as Python does.    *)
(* Python's None is the value None below; it is falsy like the empty       *)
(* string and differs from every str.                                      *)
(***************************************************************************)
EXTENDS Integers, Sequences, FiniteSets

VARIABLES
    _enabled,         \* self._enabled
    _refresh_delay,   \* self._refresh_delay
    _mediaservers,    \* self._mediaservers (None is modelled as the empty list)
    _path_mappings,   \* self._path_mappings (None is modelled as the empty list)
    call              \* the most recent call on the plugin: its arguments, what the
                      \* environment did, and every external effect it had

vars == <<_enabled, _refresh_delay, _mediaservers, _path_mappings, call>>

---------------------------------------------------------------------------
(* Python values *)

None == <<"None">>

Truthy(x) == x # None /\ x # <<>>

all(xs) == \A i \in 1..Len(xs) : Truthy(xs[i])

\* The result of a call that may raise: exc = "" when it returned val.
Return(v) == [exc |-> "", val |-> v]

Raise(e) == [exc |-> e, val |-> <<>>]

---------------------------------------------------------------------------
(* str methods *)

\* str.strip() with no argument strips these.
Whitespace == {" ", "\t", "\n", "\r"}

RECURSIVE split(_, _)
split(s, sep) ==
    IF \A i \in 1..Len(s) : s[i] # sep
    THEN <<s>>
    ELSE LET k == CHOOSE i \in 1..Len(s) :
                      s[i] = sep /\ \A j \in 1..(i - 1) : s[j] # sep
         IN  <<SubSeq(s, 1, k - 1)>> \o split(SubSeq(s, k + 1, Len(s)), sep)

lstrip(s, chars) ==
    IF \A i \in 1..Len(s) : s[i] \in chars
    THEN <<>>
    ELSE LET k == CHOOSE i \in 1..Len(s) :
                      s[i] \notin chars /\ \A j \in 1..(i - 1) : s[j] \in chars
         IN  SubSeq(s, k, Len(s))

rstrip(s, chars) ==
    IF \A i \in 1..Len(s) : s[i] \in chars
    THEN <<>>
    ELSE LET k == CHOOSE i \in 1..Len(s) :
                      s[i] \notin chars /\ \A j \in (i + 1)..Len(s) : s[j] \in chars
         IN  SubSeq(s, 1, k)

strip(s) == rstrip(lstrip(s, Whitespace), Whitespace)

\* s.replace(old, new) for a one-character old.
RECURSIVE replace(_, _, _)
replace(s, old, new) ==
    IF s = <<>>
    THEN <<>>
    ELSE (IF Head(s) = old THEN new ELSE <<Head(s)>>) \o replace(Tail(s), old, new)

startswith(s, prefix) ==
    Len(prefix) <= Len(s) /\ SubSeq(s, 1, Len(prefix)) = prefix

\* s.rfind(c), 1-based; 0 when c does not occur (Python: -1).
rfind(s, c) ==
    IF \A i \in 1..Len(s) : s[i] # c
    THEN 0
    ELSE CHOOSE i \in 1..Len(s) : s[i] = c /\ \A j \in (i + 1)..Len(s) : s[j] # c

---------------------------------------------------------------------------
(* os.path (posixpath) *)

join(a, b) ==
    IF startswith(b, <<"/">>) THEN b
    ELSE IF a = <<>> \/ a[Len(a)] = "/" THEN a \o b
    ELSE a \o <<"/">> \o b

\* <<root, ext>>: the extension starts at the last dot of the last component,
\* unless that component has only dots before it.
splitext(p) ==
    LET sepIndex == rfind(p, "/")
        dotIndex == rfind(p, ".")
    IN  IF dotIndex > sepIndex
           /\ \E k \in (sepIndex + 1)..(dotIndex - 1) : p[k] # "."
        THEN <<SubSeq(p, 1, dotIndex - 1), SubSeq(p, dotIndex, Len(p))>>
        ELSE <<p, <<>>>>

dirname(p) ==
    LET head == SubSeq(p, 1, rfind(p, "/"))
    IN  IF head # <<>> /\ \E k \in 1..Len(head) : head[k] # "/"
        THEN rstrip(head, {"/"})
        ELSE head

---------------------------------------------------------------------------
(* The mapping resolver *)

NoRule == <<None, None, None, None>>

\* Line 60 raises ValueError unless the split gives exactly three fields; the
\* except clause turns every exception into (None, None, None).
_parse_mapping_rule_uncaught(rule) ==
    LET fields == split(rule, "#")
    IN  IF Len(fields) # 3
        THEN Raise("ValueError")
        ELSE Return(<<strip(fields[1]), strip(fields[2]), strip(fields[3])>>)

_parse_mapping_rule(rule) ==
    LET fields == split(rule, "#")
    IN  IF Len(fields) # 3
        THEN Return(<<None, None, None>>)
        ELSE Return(<<strip(fields[1]), strip(fields[2]), strip(fields[3])>>)

\* The inner loop over the lines of one blob. Return(NoRule) when the loop ends
\* without a match.
RECURSIVE FindInLines(_, _)
FindInLines(lines, file_path) ==
    IF lines = <<>>
    THEN Return(NoRule)
    ELSE LET parsed == _parse_mapping_rule(Head(lines))
         IN  IF parsed.exc # ""
             THEN parsed
             ELSE IF ~all(parsed.val)
             THEN FindInLines(Tail(lines), file_path)
             ELSE LET source_path == replace(parsed.val[1], "/", <<>>)
                  IN  IF startswith(file_path, source_path)
                      THEN Return(<<source_path, parsed.val[2], parsed.val[3],
                                    lstrip(SubSeq(file_path, Len(source_path) + 1,
                                                  Len(file_path)), {"/"})>>)
                      ELSE FindInLines(Tail(lines), file_path)

\* The outer loop over the blobs of self._path_mappings.
RECURSIVE FindInBlobs(_, _)
FindInBlobs(path_mappings, file_path) ==
    IF path_mappings = <<>>
    THEN Return(NoRule)
    ELSE LET r == FindInLines(split(Head(path_mappings), "\n"), file_path)
         IN  IF r.exc # "" \/ r.val # NoRule
             THEN r
             ELSE FindInBlobs(Tail(path_mappings), file_path)

\* The loops with the return of line 83 missing its effect: the last
\* matching line decides.
RECURSIVE FindLastInLines(_, _, _)
FindLastInLines(lines, file_path, sofar) ==
    IF lines = <<>>
    THEN sofar
    ELSE LET parsed == _parse_mapping_rule(Head(lines))
             source_path == replace(parsed.val[1], "/", <<>>)
         IN  IF all(parsed.val) /\ startswith(file_path, source_path)
             THEN FindLastInLines(Tail(lines), file_path,
                      Return(<<source_path, parsed.val[2], parsed.val[3],
                               lstrip(SubSeq(file_path, Len(source_path) + 1,
                                             Len(file_path)), {"/"})>>))
             ELSE FindLastInLines(Tail(lines), file_path, sofar)

RECURSIVE FindLastInBlobs(_, _, _)
FindLastInBlobs(path_mappings, file_path, sofar) ==
    IF path_mappings = <<>>
    THEN sofar
    ELSE FindLastInBlobs(Tail(path_mappings), file_path,
             FindLastInLines(split(Head(path_mappings), "\n"), file_path, sofar))

_find_matching_rule_last(path_mappings, file_path) ==
    FindLastInBlobs(path_mappings, file_path, Return(NoRule))

_find_matching_rule(path_mappings, file_path) ==
    FindInBlobs(path_mappings, file_path)

---------------------------------------------------------------------------
(* create_strm_file *)

\* One external effect of a call: a directory ensured, a file opened for
\* writing (created or truncated), a text written, a sleep that ran, or a
\* refresh call a backend received (threw: the call raised).
Op(op, target, data, secs, threw) ==
    [op |-> op, target |-> target, data |-> data, secs |-> secs, threw |-> threw]

\* What the filesystem does to lines 107-111.
FsOutcomes == {"ok", "makedirs_fails", "open_fails", "write_fails"}

\* Lines 107-111: os.makedirs, open(..., 'w'), f.write. os.makedirs('') raises
\* FileNotFoundError.
WriteStrm(strm_file_path, remote_file_url, fs) ==
    LET dir == dirname(strm_file_path)
        made == Op("makedirs", dir, <<>>, 0, FALSE)
        opened == Op("open", strm_file_path, <<>>, 0, FALSE)
        written == Op("write", strm_file_path, remote_file_url, 0, FALSE)
    IN  IF dir = <<>> \/ fs = "makedirs_fails"
        THEN [exc |-> "OSError", ops |-> <<>>]
        ELSE IF fs = "open_fails"
        THEN [exc |-> "OSError", ops |-> <<made>>]
        ELSE IF fs = "write_fails"
        THEN [exc |-> "OSError", ops |-> <<made, opened>>]
        ELSE [exc |-> "", ops |-> <<made, opened, written>>]

StrmPath(target_prefix, relative_path) ==
    splitext(join(target_prefix, relative_path))[1] \o <<".", "s", "t", "r", "m">>

RemoteUrl(remote_url, relative_path) ==
    rstrip(remote_url, {"/"}) \o <<"/">> \o relative_path

\* Lines 113-119: the result of the try once lines 107-111 ran.
Written(found, w) ==
    IF w.exc # ""
    THEN [ret |-> FALSE, log |-> "error", ops |-> w.ops, found |-> found]
    ELSE [ret |-> TRUE, log |-> "created", ops |-> w.ops, found |-> found]

\* Lines 94-119, from what _find_matching_rule returned or raised.
Created(found, fs) ==
    IF found.exc # ""
    THEN [ret |-> FALSE, log |-> "error", ops |-> <<>>, found |-> found]
    ELSE IF ~all(found.val)
    THEN [ret |-> FALSE, log |-> "no_match", ops |-> <<>>, found |-> found]
    ELSE Written(found, WriteStrm(StrmPath(found.val[2], found.val[4]),
                                  RemoteUrl(found.val[3], found.val[4]), fs))

\* create_strm_file with the except clause of line 117 returning True.
WrittenSwallow(found, w) ==
    [ret |-> TRUE, log |-> IF w.exc # "" THEN "error" ELSE "created",
     ops |-> w.ops, found |-> found]

CreatedSwallow(found, fs) ==
    IF found.exc # ""
    THEN [ret |-> TRUE, log |-> "error", ops |-> <<>>, found |-> found]
    ELSE IF ~all(found.val)
    THEN [ret |-> FALSE, log |-> "no_match", ops |-> <<>>, found |-> found]
    ELSE WrittenSwallow(found, WriteStrm(StrmPath(found.val[2], found.val[4]),
                                         RemoteUrl(found.val[3], found.val[4]), fs))

create_strm_file_swallow(path_mappings, file_path, fs) ==
    CreatedSwallow(_find_matching_rule(path_mappings, file_path), fs)

\* ret: the return value; log: which of the three messages was logged
\* ("no_match": the warning of line 95; "error": line 118; "created": line 113);
\* ops: the effects on the filesystem; found: what _find_matching_rule gave.
create_strm_file(path_mappings, file_path, fs) ==
    Created(_find_matching_rule(path_mappings, file_path), fs)

---------------------------------------------------------------------------
(* Media servers *)

\* The media servers configured in the host, in the order of its services
\* dict, and the type of each.
HostServices == <<"emby_main", "jellyfin_main", "plex_main">>

ServiceType ==
    [n \in {"emby_main", "jellyfin_main", "plex_main"} |->
        IF n = "emby_main" THEN "emby"
        ELSE IF n = "jellyfin_main" THEN "jellyfin" ELSE "plex"]

Range(s) == {s[i] : i \in 1..Len(s)}

\* MediaServerHelper.get_services(name_filters=...): the host's services
\* whose name is in the filter.
get_services(name_filters) ==
    SelectSeq(HostServices, LAMBDA n : n \in Range(name_filters))

\* What a service does during one call of the handler: "inactive"
\* (is_inactive() is true), or active and its refresh call returns ("ok") or
\* raises ("throws").
ServiceStatus == {"ok", "throws", "inactive"}

\* The property service_infos: the active services, None (here <<>>) when
\* there is none.
service_infos(mediaservers, status) ==
    IF ~Truthy(mediaservers)
    THEN <<>>
    ELSE SelectSeq(get_services(mediaservers), LAMBDA n : status[n] # "inactive")

\* The body of the try of lines 148-162 for one service: the calls the
\* service receives; a call that raises skips the rest of the body.
RefreshService(name, status) ==
    LET threw == status[name] = "throws"
        emby == IF ServiceType[name] = "emby"
                THEN <<Op("refresh_library_by_items", <<name>>, <<>>, 0, threw)>>
                ELSE <<>>
        jellyfin == IF ServiceType[name] = "jellyfin"
                    THEN <<Op("refresh_root_library", <<name>>, <<>>, 0, threw)>>
                    ELSE <<>>
        plex == IF ServiceType[name] = "plex"
                THEN <<Op("refresh_library_by_items", <<name>>, <<>>, 0, threw)>>
                ELSE <<>>
    IN  IF emby # <<>> /\ threw THEN emby
        ELSE IF jellyfin # <<>> /\ threw THEN emby \o jellyfin
        ELSE emby \o jellyfin \o plex

Threw(ops) == \E i \in 1..Len(ops) : ops[i].threw

\* The loop of line 147 without the except clause: the first refresh call
\* that raises ends the loop and the exception leaves refresh_media_server.
RECURSIVE RefreshLoopUncaught(_, _)
RefreshLoopUncaught(names, status) ==
    IF names = <<>>
    THEN [exc |-> "", ops |-> <<>>]
    ELSE LET calls == RefreshService(Head(names), status)
             rest == RefreshLoopUncaught(Tail(names), status)
         IN  IF Threw(calls)
             THEN [exc |-> "Exception", ops |-> calls]
             ELSE [exc |-> rest.exc, ops |-> calls \o rest.ops]

refresh_media_server_uncaught(mediaservers, status) ==
    RefreshLoopUncaught(service_infos(mediaservers, status), status)

\* The loop of line 147: the except clause of line 164 ends the iteration of
\* a service whose call raised, and the loop goes on.
RECURSIVE RefreshLoop(_, _)
RefreshLoop(names, status) ==
    IF names = <<>>
    THEN <<>>
    ELSE RefreshService(Head(names), status) \o RefreshLoop(Tail(names), status)

refresh_media_server(mediaservers, status) ==
    [exc |-> "", ops |-> RefreshLoop(service_infos(mediaservers, status), status)]

---------------------------------------------------------------------------
(* on_transfer_complete *)

\* The names the module binds at import (lines 1-14).
Imports ==
    {"os", "Any", "List", "Dict", "Tuple", "Optional", "datetime", "Path", "re",
     "settings", "MediaInfo", "eventmanager", "Event", "MediaServerHelper",
     "logger", "_PluginBase", "TransferInfo", "RefreshMediaItem", "ServiceInfo",
     "EventType", "MediaType"}

\* Line 211, time.sleep(self._refresh_delay): evaluating the name time raises
\* NameError unless the module binds it.
Sleep(secs) ==
    IF "time" \in Imports
    THEN [exc |-> "", ops |-> <<Op("sleep", <<>>, <<>>, secs, FALSE)>>]
    ELSE [exc |-> "NameError", ops |-> <<>>]

NotCreated == [ret |-> FALSE, log |-> "", ops |-> <<>>, found |-> Return(NoRule)]

\* Line 213, after the sleep returned: the handler ends as
\* refresh_media_server does.
Dispatched(created, slept, refreshed) ==
    [exc |-> refreshed.exc, ops |-> created.ops \o slept.ops \o refreshed.ops,
     created |-> created]

\* Lines 209-213, from what line 211 did.
Slept(created, slept, status) ==
    IF slept.exc # ""
    THEN [exc |-> slept.exc, ops |-> created.ops \o slept.ops, created |-> created]
    ELSE Dispatched(created, slept, refresh_media_server(_mediaservers, status))

\* Lines 193-213, after create_strm_file returned True.
Refresh(event, created, status) ==
    IF ~event.mediainfo
    THEN [exc |-> "", ops |-> created.ops, created |-> created]
    ELSE Slept(created,
               IF _refresh_delay # 0
               THEN Sleep(_refresh_delay)
               ELSE [exc |-> "", ops |-> <<>>],
               status)

\* Lines 190-213, from what create_strm_file returned.
AfterCreate(event, created, status) ==
    IF ~created.ret
    THEN [exc |-> "", ops |-> created.ops, created |-> created]
    ELSE Refresh(event, created, status)

\* on_transfer_complete with the result of create_strm_file ignored.
on_transfer_complete_unchecked(event, fs, status) ==
    IF ~_enabled \/ ~Truthy(_path_mappings)
       \/ ~event.event_data \/ ~event.transferinfo \/ ~event.target_diritem
       \/ ~Truthy(event.path)
    THEN [exc |-> "", ops |-> <<>>, created |-> NotCreated]
    ELSE Refresh(event, create_strm_file(_path_mappings, event.path, fs), status)

\* exc: the exception that leaves the handler ("" when it returns); ops: the
\* external effects of the call, in order; created: what create_strm_file
\* returned, when it was called.
on_transfer_complete(event, fs, status) ==
    IF ~_enabled \/ ~Truthy(_path_mappings)
    THEN [exc |-> "", ops |-> <<>>, created |-> NotCreated]
    ELSE IF ~event.event_data
    THEN [exc |-> "", ops |-> <<>>, created |-> NotCreated]
    ELSE IF ~event.transferinfo \/ ~event.target_diritem
    THEN [exc |-> "", ops |-> <<>>, created |-> NotCreated]
    ELSE IF ~Truthy(event.path)
    THEN [exc |-> "", ops |-> <<>>, created |-> NotCreated]
    ELSE AfterCreate(event, create_strm_file(_path_mappings, event.path, fs), status)

---------------------------------------------------------------------------
(* Inputs *)
\* '/ecloud/movies#/link/movies#https://cdn.example.com/d'
RuleEcloud ==
    <<"/", "e", "c", "l", "o", "u", "d", "/", "m", "o", "v", "i", "e", "s",
    "#", "/", "l", "i", "n", "k", "/", "m", "o", "v", "i", "e", "s", "#", "h",
    "t", "t", "p", "s", ":", "/", "/", "c", "d", "n", ".", "e", "x", "a", "m",
    "p", "l", "e", ".", "c", "o", "m", "/", "d">>
\* '/ecloud/movies/Foo.2020/Foo.2020.mkv'
PathFoo ==
    <<"/", "e", "c", "l", "o", "u", "d", "/", "m", "o", "v", "i", "e", "s",
    "/", "F", "o", "o", ".", "2", "0", "2", "0", "/", "F", "o", "o", ".", "2",
    "0", "2", "0", ".", "m", "k", "v">>
\* '/link/movies/Foo.2020/Foo.2020.strm'
StrmFoo ==
    <<"/", "l", "i", "n", "k", "/", "m", "o", "v", "i", "e", "s", "/", "F",
    "o", "o", ".", "2", "0", "2", "0", "/", "F", "o", "o", ".", "2", "0", "2",
    "0", ".", "s", "t", "r", "m">>
\* 'https://cdn.example.com/d/Foo.2020/Foo.2020.mkv'
UrlFoo ==
    <<"h", "t", "t", "p", "s", ":", "/", "/", "c", "d", "n", ".", "e", "x",
    "a", "m", "p", "l", "e", ".", "c", "o", "m", "/", "d", "/", "F", "o", "o",
    ".", "2", "0", "2", "0", "/", "F", "o", "o", ".", "2", "0", "2", "0", ".",
    "m", "k", "v">>

\* '/e/m#/l#h:/': a source written as a directory path
RuleSlashed == <<"/", "e", "/", "m", "#", "/", "l", "#", "h", ":", "/">>
\* 'e# t/ #u/ ': a source without separators, fields padded with blanks
RulePlain == <<"e", "#", " ", "t", "/", " ", "#", "u", "/", " ">>
\* '/#/r#u//': the source is the root directory
RuleRoot == <<"/", "#", "/", "r", "#", "u", "/", "/">>
\* 'e#/t': two fields
RuleTwoFields == <<"e", "#", "/", "t">>
\* 'e#/t#u#x': four fields
RuleFourFields == <<"e", "#", "/", "t", "#", "u", "#", "x">>
\* 'e# \t#u': a field that is blank after trimming
RuleBlankField == <<"e", "#", " ", "\t", "#", "u">>
\* '': an empty line
RuleEmptyLine == <<>>

\* '/e/m/F.mkv'
PathUnderDir == <<"/", "e", "/", "m", "/", "F", ".", "m", "k", "v">>
\* 'em/F.2.mp4'
PathStripped == <<"e", "m", "/", "F", ".", "2", ".", "m", "p", "4">>
\* 'e': the whole path is a source prefix
PathIsPrefix == <<"e">>
\* 'e//x': no extension
PathNoExt == <<"e", "/", "/", "x">>

---------------------------------------------------------------------------
(* Bounds and input sets *)

\* The most lines a generated rule set has.
MaxLines == 3

\* The largest configured refresh delay, in seconds.
MaxDelay == 1

RuleLines ==
    {RuleSlashed, RulePlain, RuleRoot, RuleTwoFields, RuleFourFields,
     RuleBlankField, RuleEmptyLine}

Paths == {PathFoo, PathUnderDir, PathStripped, PathIsPrefix, PathNoExt}

\* '\n'.join(lines)
RECURSIVE JoinLines(_)
JoinLines(lines) ==
    IF Len(lines) = 1
    THEN Head(lines)
    ELSE Head(lines) \o <<"\n">> \o JoinLines(Tail(lines))

\* The blobs made of lines[i..], a blob ending after each line whose index is
\* in cuts.
RECURSIVE BlobsFrom(_, _, _)
BlobsFrom(lines, cuts, i) ==
    IF i > Len(lines)
    THEN <<>>
    ELSE LET e == CHOOSE j \in i..Len(lines) :
                      (j = Len(lines) \/ j \in cuts) /\ \A k \in i..(j - 1) : k \notin cuts
         IN  <<JoinLines(SubSeq(lines, i, e))>> \o BlobsFrom(lines, cuts, e + 1)

\* A str where a list is expected: the loop of line 71 iterates over its
\* characters, each a blob of its own (the form's default for path_mappings
\* is the str "").
Characters(s) == [i \in 1..Len(s) |-> <<s[i]>>]

\* Every list of blobs that holds at most MaxLines of RuleLines, the rule set
\* of the documented example, and a rule given as a str.
RuleSets ==
    UNION {{BlobsFrom(ls, cuts, 1) : cuts \in SUBSET (1..(Len(ls) - 1))} :
              ls \in UNION {[1..n -> RuleLines] : n \in 0..MaxLines}}
    \cup {<<RuleEcloud>>, Characters(RulePlain)}

\* The values of path_mappings and mediaservers a configuration may carry.
MappingChoices ==
    {<<>>,
     <<JoinLines(<<RuleTwoFields, RulePlain>>)>>,
     <<RuleSlashed, JoinLines(<<RuleBlankField, RulePlain>>)>>}

MediaserverChoices ==
    {<<>>, <<"plex_main", "jellyfin_main", "emby_main">>, <<"emby_main", "nas">>}

\* The sets of keys a configuration dict may hold: none (the empty dict, or
\* None), some, or all.
ConfigKeySets ==
    {{}, {"enabled"}, {"enabled", "path_mappings"},
     {"enabled", "refresh_delay", "mediaservers", "path_mappings"}}

\* A configuration dict: keys are the keys present; the field of an absent
\* key is a filler.
ConfigArgs ==
    {c \in [keys : ConfigKeySets,
            enabled : BOOLEAN, refresh_delay : 0..MaxDelay,
            mediaservers : MediaserverChoices, path_mappings : MappingChoices] :
        /\ "enabled" \notin c.keys => c.enabled = FALSE
        /\ "refresh_delay" \notin c.keys => c.refresh_delay = 0
        /\ "mediaservers" \notin c.keys => c.mediaservers = <<>>
        /\ "path_mappings" \notin c.keys => c.path_mappings = <<>>}

NoConfig ==
    [keys |-> {}, enabled |-> FALSE, refresh_delay |-> 0, mediaservers |-> <<>>,
     path_mappings |-> <<>>]

\* config.get(key, default)
get(config, key, default) == IF key \in config.keys THEN config[key] ELSE default

\* An event: event.event_data, its "transferinfo", the transferinfo's
\* target_diritem and its path, and its "mediainfo", each present or not.
NoEvent ==
    [event_data |-> FALSE, transferinfo |-> FALSE, target_diritem |-> FALSE,
     path |-> <<>>, mediainfo |-> FALSE]

Events ==
    {e \in [event_data : BOOLEAN, transferinfo : BOOLEAN, target_diritem : BOOLEAN,
            path : (Paths \ {PathFoo}) \cup {<<>>}, mediainfo : BOOLEAN] :
        /\ ~e.event_data => ~e.transferinfo /\ ~e.mediainfo
        /\ ~e.transferinfo => ~e.target_diritem
        /\ ~e.target_diritem => e.path = <<>>}

\* What each host service does during a call; a service the call cannot reach
\* is left "ok".
Statuses(mediaservers) ==
    {s \in [Range(HostServices) -> ServiceStatus] :
        \A n \in Range(HostServices) :
            n \notin Range(get_services(mediaservers)) => s[n] = "ok"}

AllOk == [n \in Range(HostServices) |-> "ok"]

RefreshOps == {"refresh_library_by_items", "refresh_root_library"}

\* The environment answers only the calls that are made: the filesystem has
\* an outcome when the handler reaches lines 107-111, the services have a
\* status when it reaches refresh_media_server.
FsAnswers(event) ==
    IF on_transfer_complete(event, "ok", AllOk).ops # <<>>
    THEN FsOutcomes
    ELSE {"ok"}

Refreshes(ops) == \E i \in 1..Len(ops) : ops[i].op \in RefreshOps

StatusAnswers(event, fs) ==
    IF Refreshes(on_transfer_complete(event, fs, AllOk).ops)
    THEN Statuses(_mediaservers)
    ELSE {AllOk}

FsAnswersOfCreate(path_mappings, file_path) ==
    IF create_strm_file(path_mappings, file_path, "ok").ops # <<>>
    THEN FsOutcomes
    ELSE {"ok"}

---------------------------------------------------------------------------
(* State machine *)

NoCall ==
    [fn |-> "none", config |-> NoConfig, event |-> NoEvent, file_path |-> <<>>,
     fs |-> "ok", status |-> AllOk, found |-> Return(NoRule), ret |-> FALSE,
     log |-> "", ops |-> <<>>, exc |-> ""]

\* The class attributes of lines 38-41, before any init_plugin.
Init ==
    /\ _enabled = FALSE
    /\ _refresh_delay = 0
    /\ _mediaservers = <<>>
    /\ _path_mappings = <<>>
    /\ call = NoCall

\* int(config.get('refresh_delay') or 0) and config.get(key) or []: the
\* value when it is truthy, else the default. The delay of a configuration
\* is a natural number, which int() returns as it is.
init_plugin(config) ==
    /\ IF config.keys # {}
       THEN /\ _enabled' = get(config, "enabled", FALSE)
            /\ _refresh_delay' = get(config, "refresh_delay", 0)
            /\ _mediaservers' = get(config, "mediaservers", <<>>)
            /\ _path_mappings' = get(config, "path_mappings", <<>>)
       ELSE UNCHANGED <<_enabled, _refresh_delay, _mediaservers, _path_mappings>>
    /\ call' = [NoCall EXCEPT !.fn = "init_plugin", !.config = config]

\* The host delivers a TransferComplete event.
Handled(event, fs, status, r) ==
    [NoCall EXCEPT !.fn = "on_transfer_complete", !.event = event,
                   !.file_path = event.path, !.fs = fs, !.status = status,
                   !.found = r.created.found, !.ret = r.created.ret,
                   !.log = r.created.log, !.ops = r.ops, !.exc = r.exc]

TransferComplete(event, fs, status) ==
    /\ call' = Handled(event, fs, status, on_transfer_complete(event, fs, status))
    /\ UNCHANGED <<_enabled, _refresh_delay, _mediaservers, _path_mappings>>

Next ==
    \/ \E config \in ConfigArgs : init_plugin(config)
    \/ \E event \in Events :
           \E fs \in FsAnswers(event) :
               \E status \in StatusAnswers(event, fs) :
                   TransferComplete(event, fs, status)

Spec == Init /\ [][Next]_vars

---------------------------------------------------------------------------
(* The resolver on its own: a rule set and a path, then one call *)

ResolverInit ==
    /\ _enabled = TRUE
    /\ _refresh_delay = 0
    /\ _mediaservers = <<>>
    /\ _path_mappings \in RuleSets
    /\ \E p \in Paths : call = [NoCall EXCEPT !.fn = "pending", !.file_path = p]

Found(found) ==
    [call EXCEPT !.fn = "_find_matching_rule", !.found = found, !.exc = found.exc]

CallFindMatchingRule ==
    /\ call.fn = "pending"
    /\ call' = Found(_find_matching_rule(_path_mappings, call.file_path))
    /\ UNCHANGED <<_enabled, _refresh_delay, _mediaservers, _path_mappings>>

CreatedCall(fs, r) ==
    [call EXCEPT !.fn = "create_strm_file", !.fs = fs, !.found = r.found,
                 !.ret = r.ret, !.log = r.log, !.ops = r.ops]

CallCreateStrmFile(fs) ==
    /\ call.fn = "pending"
    /\ call' = CreatedCall(fs, create_strm_file(_path_mappings, call.file_path, fs))
    /\ UNCHANGED <<_enabled, _refresh_delay, _mediaservers, _path_mappings>>

ResolverNext ==
    \/ CallFindMatchingRule
    \/ \E fs \in FsAnswersOfCreate(_path_mappings, call.file_path) :
           CallCreateStrmFile(fs)

ResolverSpec == ResolverInit /\ [][ResolverNext]_vars

---------------------------------------------------------------------------
(* The rule format, stated without the helpers of the code *)

Blank(s) == \A k \in 1..Len(s) : s[k] \in Whitespace

Count(s, c) == Cardinality({k \in 1..Len(s) : s[k] = c})

\* The position of the n-th c in s.
SepAt(s, c, n) ==
    CHOOSE k \in 1..Len(s) : s[k] = c /\ Cardinality({m \in 1..k : s[m] = c}) = n

\* The n-th of the pieces that the occurrences of c cut s into.
Piece(s, c, n) ==
    SubSeq(s,
           IF n = 1 THEN 1 ELSE SepAt(s, c, n - 1) + 1,
           IF n = Count(s, c) + 1 THEN Len(s) ELSE SepAt(s, c, n) - 1)

WellFormed(line) ==
    /\ Count(line, "#") = 2
    /\ \A n \in 1..3 : ~Blank(Piece(line, "#", n))

\* A non-blank s from its first to its last non-blank character.
Trimmed(s) ==
    SubSeq(s,
           CHOOSE a \in 1..Len(s) : s[a] \notin Whitespace /\ Blank(SubSeq(s, 1, a - 1)),
           CHOOSE b \in 1..Len(s) :
               s[b] \notin Whitespace /\ Blank(SubSeq(s, b + 1, Len(s))))

StripSeparators(s) == SelectSeq(s, LAMBDA c : c # "/")

IsPrefix(a, p) == Len(a) <= Len(p) /\ \A k \in 1..Len(a) : a[k] = p[k]

SourceOf(line) == StripSeparators(Trimmed(Piece(line, "#", 1)))

TargetOf(line) == Trimmed(Piece(line, "#", 2))

UrlOf(line) == Trimmed(Piece(line, "#", 3))

Matches(line, p) == WellFormed(line) /\ IsPrefix(SourceOf(line), p)

\* p without its first n characters and without the '/' that then lead.
Relative(p, n) ==
    SubSeq(p,
           CHOOSE a \in (n + 1)..(Len(p) + 1) :
               /\ \A k \in (n + 1)..(a - 1) : p[k] = "/"
               /\ a <= Len(p) => p[a] # "/",
           Len(p))

\* What a matching line resolves p to.
ResultOf(line, p) ==
    <<SourceOf(line), TargetOf(line), UrlOf(line), Relative(p, Len(SourceOf(line)))>>

\* The lines of a rule set by position <<blob, line>>; Before is the
\* evaluation order.
Positions(path_mappings) ==
    UNION {{<<i, j>> : j \in 1..(Count(path_mappings[i], "\n") + 1)} :
              i \in 1..Len(path_mappings)}

LineAt(path_mappings, q) == Piece(path_mappings[q[1]], "\n", q[2])

Before(q1, q2) == q1[1] < q2[1] \/ (q1[1] = q2[1] /\ q1[2] < q2[2])

MatchingAt(q) == Matches(LineAt(_path_mappings, q), call.file_path)

\* q is the first matching line in evaluation order.
FirstMatch(q) ==
    /\ q \in Positions(_path_mappings)
    /\ MatchingAt(q)
    /\ \A q0 \in Positions(_path_mappings) : Before(q0, q) => ~MatchingAt(q0)

OpsOf(kind) == {k \in 1..Len(call.ops) : call.ops[k].op \in kind}

---------------------------------------------------------------------------
(* Claims *)

\* C1: when the first matching line of the rule set is a valid rule (s, t, u)
\* whose separator-stripped source is a prefix of the path p, create_strm_file
\* (the filesystem working) does not report NoMatch, succeeds, and writes
\* rstrip(u, '/') + '/' + relative to join(t, relative) with its extension
\* replaced by '.strm', relative being p without the stripped source and
\* without leading '/'. Violated by the code: an empty relative path or an
\* empty stripped source is reported as NoMatch.
C1_ResolveWritesPointer ==
    \A q \in Positions(_path_mappings) :
        (call.fn = "create_strm_file" /\ call.fs = "ok" /\ FirstMatch(q)) =>
            LET line == LineAt(_path_mappings, q)
                relative == Relative(call.file_path, Len(SourceOf(line)))
            IN  /\ call.log # "no_match"
                /\ call.ret
                /\ \E k \in OpsOf({"write"}) :
                       /\ call.ops[k].target =
                              splitext(join(TargetOf(line), relative))[1]
                                  \o <<".", "s", "t", "r", "m">>
                       /\ call.ops[k].data =
                              rstrip(UrlOf(line), {"/"}) \o <<"/">> \o relative

\* The part of C1 the code keeps: the same, for a first matching line whose
\* stripped source and relative path are both non-empty.
C1_NonDegenerate ==
    \A q \in Positions(_path_mappings) :
        (/\ call.fn = "create_strm_file" /\ call.fs = "ok" /\ FirstMatch(q)
         /\ SourceOf(LineAt(_path_mappings, q)) # <<>>
         /\ Relative(call.file_path, Len(SourceOf(LineAt(_path_mappings, q)))) # <<>>)
        =>
            LET line == LineAt(_path_mappings, q)
                relative == Relative(call.file_path, Len(SourceOf(line)))
            IN  /\ call.log = "created"
                /\ call.ret
                /\ \E k \in OpsOf({"write"}) :
                       /\ call.ops[k].target =
                              splitext(join(TargetOf(line), relative))[1]
                                  \o <<".", "s", "t", "r", "m">>
                       /\ call.ops[k].data =
                              rstrip(UrlOf(line), {"/"}) \o <<"/">> \o relative

\* A source written as an absolute directory path, and a path under it.
UnderDirectory(line, p) ==
    /\ WellFormed(line)
    /\ Trimmed(Piece(line, "#", 1))[1] = "/"
    /\ \E k \in 1..Len(Trimmed(Piece(line, "#", 1))) :
           Trimmed(Piece(line, "#", 1))[k] # "/"
    /\ IsPrefix(Trimmed(Piece(line, "#", 1)) \o <<"/">>, p)
    /\ Len(p) > Len(Trimmed(Piece(line, "#", 1))) + 1

\* The documented example alone.
C2_DocumentedExample ==
    (/\ call.fn = "create_strm_file" /\ call.fs = "ok"
     /\ _path_mappings = <<RuleEcloud>> /\ call.file_path = PathFoo)
    => /\ call.ret
       /\ \E k \in OpsOf({"write"}) :
              call.ops[k].target = StrmFoo /\ call.ops[k].data = UrlFoo

\* C2: with the single rule "/ecloud/movies#/link/movies#https://cdn.example.com/d"
\* the path /ecloud/movies/Foo.2020/Foo.2020.mkv resolves to the pointer file
\* /link/movies/Foo.2020/Foo.2020.strm holding
\* https://cdn.example.com/d/Foo.2020/Foo.2020.mkv; and a single rule whose
\* source is an absolute directory path matches a path under that directory.
\* Violated by the code: the source loses its '/' before the comparison.
C2_DirectoryRuleMatches ==
    /\ C2_DocumentedExample
    /\ (/\ call.fn \in {"_find_matching_rule", "create_strm_file"}
        /\ Len(_path_mappings) = 1
        /\ UnderDirectory(_path_mappings[1], call.file_path))
       => call.found.val # NoRule

\* C3: first match wins: when valid lines match the path, _find_matching_rule
\* returns the result of the earliest of them in evaluation order (blob order,
\* then line order), whatever the later lines and blobs are.
C3_FirstMatchWins ==
    \A q \in Positions(_path_mappings) :
        (call.fn = "_find_matching_rule" /\ FirstMatch(q)) =>
            call.found = Return(ResultOf(LineAt(_path_mappings, q), call.file_path))

\* Two lines of different blobs match, with different results, and a third
\* line of the first blob matches too: the earliest was returned.
C3_Witness ==
    /\ call.fn = "_find_matching_rule"
    /\ \E q1, q2, q3 \in Positions(_path_mappings) :
           /\ FirstMatch(q1) /\ MatchingAt(q2) /\ MatchingAt(q3)
           /\ q1[1] = q2[1] /\ q1[2] < q2[2] /\ q2[1] < q3[1]
           /\ TargetOf(LineAt(_path_mappings, q1)) # TargetOf(LineAt(_path_mappings, q2))
           /\ TargetOf(LineAt(_path_mappings, q1)) # TargetOf(LineAt(_path_mappings, q3))
           /\ call.found.val[2] = TargetOf(LineAt(_path_mappings, q1))

\* C4: a malformed line (not exactly three fields, or a field blank after
\* trimming) never produces a match and never makes _find_matching_rule
\* raise: what is returned comes from a well-formed line, and a well-formed
\* matching line is found whatever malformed lines precede it.
C4_MalformedSkipped ==
    call.fn = "_find_matching_rule" =>
        /\ call.exc = "" /\ call.found.exc = ""
        /\ call.found.val # NoRule =>
               \E q \in Positions(_path_mappings) :
                   /\ MatchingAt(q)
                   /\ call.found.val = ResultOf(LineAt(_path_mappings, q), call.file_path)
        /\ (\E q \in Positions(_path_mappings) : MatchingAt(q)) =>
               call.found.val # NoRule

\* Two malformed lines, of two kinds, precede the first matching line, which
\* was found.
C4_Witness ==
    /\ call.fn = "_find_matching_rule"
    /\ call.exc = ""
    /\ \E q \in Positions(_path_mappings) :
           /\ FirstMatch(q)
           /\ call.found.val = ResultOf(LineAt(_path_mappings, q), call.file_path)
           /\ \E q1, q2 \in Positions(_path_mappings) :
                  /\ Before(q1, q2) /\ Before(q2, q)
                  /\ Count(LineAt(_path_mappings, q1), "#") # 2
                  /\ Count(LineAt(_path_mappings, q2), "#") = 2
                  /\ ~WellFormed(LineAt(_path_mappings, q2))

---------------------------------------------------------------------------
(* Claims about the handler *)

\* The handler ran for an event that carries a file path, with the plugin
\* enabled and rules configured: it called create_strm_file.
Resolved ==
    /\ call.fn = "on_transfer_complete"
    /\ _enabled /\ _path_mappings # <<>>
    /\ call.event.event_data /\ call.event.transferinfo /\ call.event.target_diritem
    /\ call.event.path # <<>>

\* The services refresh_media_server iterates over: named in the
\* configuration, configured in the host, and active during the call.
Active ==
    {n \in Range(HostServices) :
        n \in Range(_mediaservers) /\ call.status[n] # "inactive"}

RefreshOf(n) ==
    IF ServiceType[n] = "jellyfin" THEN "refresh_root_library"
    ELSE "refresh_library_by_items"

\* C5: when the path of the event matches no configured rule, the handler
\* ends with NoMatch and without an exception, and has no effect: no
\* directory created, no file written, no refresh call.
C5_NoMatchNoEffect ==
    (Resolved /\ \A q \in Positions(_path_mappings) : ~MatchingAt(q)) =>
        /\ call.exc = ""
        /\ ~call.ret /\ call.log = "no_match"
        /\ call.ops = <<>>

\* No rule matches the path of an event that carries media info, while
\* valid rules and active media servers are configured.
C5_Witness ==
    /\ Resolved
    /\ \A q \in Positions(_path_mappings) : ~MatchingAt(q)
    /\ \E q \in Positions(_path_mappings) : WellFormed(LineAt(_path_mappings, q))
    /\ call.event.mediainfo
    /\ _refresh_delay = 0
    /\ Cardinality(Active) = 3
    /\ call.log = "no_match" /\ call.ops = <<>>

\* The handler reached refresh_media_server: the pointer file was written,
\* the event carries media info, and line 211 did not raise.
Dispatching ==
    /\ Resolved
    /\ call.ret
    /\ call.event.mediainfo
    /\ call.exc # "NameError"

\* C6: in refresh_media_server, whichever active backends raise, every active
\* configured backend receives its own refresh call, exactly once, and the
\* handler returns normally.
C6_BackendFailuresIsolated ==
    Dispatching =>
        /\ call.exc = ""
        /\ \A n \in Active :
               Cardinality({k \in OpsOf(RefreshOps) :
                               /\ call.ops[k].target = <<n>>
                               /\ call.ops[k].op = RefreshOf(n)}) = 1
        /\ \A k \in OpsOf(RefreshOps) :
               call.ops[k].target[1] \in Active

\* Three active backends, the first and the last of the loop raise, and all
\* three received their call.
C6_Witness ==
    /\ Dispatching
    /\ call.exc = ""
    /\ Cardinality(Active) = 3
    /\ call.status["emby_main"] = "throws"
    /\ call.status["jellyfin_main"] = "ok"
    /\ call.status["plex_main"] = "throws"
    /\ \A n \in Active : \E k \in OpsOf(RefreshOps) : call.ops[k].target = <<n>>

\* C7: when the pointer file was written, the event carries media info and a
\* positive delay is configured, the handler sleeps for the delay after the
\* write and then every active configured backend receives its refresh call,
\* after the sleep. Violated by the code: line 211 raises NameError, the
\* module does not import time.
C7_DelayThenRefresh ==
    (Resolved /\ call.ret /\ call.event.mediainfo /\ _refresh_delay > 0) =>
        \E s \in OpsOf({"sleep"}) :
            /\ call.ops[s].secs = _refresh_delay
            /\ \A w \in OpsOf({"write"}) : w < s
            /\ \A r \in OpsOf(RefreshOps) : s < r
            /\ \A n \in Active : \E r \in OpsOf(RefreshOps) : call.ops[r].target = <<n>>

\* C8: on_transfer_complete never raises. Violated by the code: the
\* NameError of line 211 leaves the handler.
C8_HandlerNeverRaises ==
    call.fn = "on_transfer_complete" => call.exc = ""

\* C9: when directory creation, opening or writing the pointer file fails,
\* create_strm_file reports failure and the handler stops: no sleep, no
\* refresh call, no exception; and within one event a refresh call comes
\* only after the pointer file was written.
C9_WriteFailureAborts ==
    /\ (Resolved /\ call.fs # "ok") =>
           /\ ~call.ret /\ call.log = "error"
           /\ call.exc = ""
           /\ OpsOf({"sleep"}) = {} /\ OpsOf(RefreshOps) = {}
           /\ OpsOf({"write"}) = {}
    /\ call.fn = "on_transfer_complete" =>
           \A r \in OpsOf(RefreshOps) : \E w \in OpsOf({"write"}) : w < r

\* The write fails after the file was opened, for an event that carries
\* media info, with no delay and three active backends.
C9_Witness ==
    /\ Resolved
    /\ call.fs = "write_fails"
    /\ OpsOf({"open"}) # {}
    /\ call.event.mediainfo
    /\ _refresh_delay = 0
    /\ Cardinality(Active) = 3
    /\ ~call.ret

\* C10: after init_plugin the enable flag, the delay, the media servers and
\* the rule set are those of its argument, with the defaults False, 0 and
\* empty for absent keys, also when the argument is empty. Violated by the
\* code: an empty argument leaves the earlier configuration in place.
C10_ConfigReplaced ==
    call.fn = "init_plugin" =>
        /\ _enabled = (("enabled" \in call.config.keys) /\ call.config.enabled)
        /\ _refresh_delay =
               (IF "refresh_delay" \in call.config.keys
                THEN call.config.refresh_delay ELSE 0)
        /\ _mediaservers =
               (IF "mediaservers" \in call.config.keys
                THEN call.config.mediaservers ELSE <<>>)
        /\ _path_mappings =
               (IF "path_mappings" \in call.config.keys
                THEN call.config.path_mappings ELSE <<>>)

\* The part of C10 the code keeps: the same for a non-empty argument.
C10_NonEmptyConfigReplaced ==
    (call.fn = "init_plugin" /\ call.config.keys # {}) => C10_ConfigReplaced

===========================================================================
